---- MODULE Spec2Model ----
(***************************************************************************)
(* auto_hotplug: the load-driven CPU hotplug controller, in its two        *)
(* variants:                                                               *)
(*   "sysfs" : src/arch/arm/mach-tegra/auto_hotplug.c (tunables in struct  *)
(*             rev_tune behind sysfs stores, early-suspend hooks)          *)
(*   "touch" : src/unnamed/part_000 (module parameters, tiered single-CPU  *)
(*             thresholds, touch-boost input handler)                      *)
(* Every work function and every externally called entry point is one      *)
(* action, taken as a whole.  Time is abstracted: a pending timer may      *)
(* expire at any moment, whatever its delay; the delay the tick was armed  *)
(* with is kept (in milliseconds) so that it can be stated.  cpu_up and    *)
(* cpu_down may be refused by the platform.  hotplug_offline_work's timer  *)
(* expiry is a step of its own because cancel_delayed_work, unlike         *)
(* cancel_delayed_work_sync, only stops a timer that has not expired yet.  *)
(* flags is a plain unsigned char that the handlers update with |= and &=  *)
(* under no lock: SpecRace takes two of these updates as a load and a      *)
(* store with other handlers in between, Spec takes every update whole.    *)
(* SpecLoop takes the loop of auto_hotplug_early_suspend one cpu_down at a  *)
(* time, SpecCursor follows the write cursor over a long run of ticks, and *)
(* SpecConfig is the seven sysfs stores alone.                             *)
(***************************************************************************)
EXTENDS Integers, Sequences, FiniteSets, TLC

VARIABLES
    variant,    \* which of the two drivers is built
    phase,      \* "boot" before auto_hotplug_init, then "started" or "failed"
    flags,      \* unsigned char flags, as the set of bits that are set
    rev,        \* struct rev_tune rev / the module parameters
    history,    \* unsigned int history[SAMPLING_PERIODS]
    index,      \* unsigned int index
    online,     \* cpu_online_mask
    dw,         \* hotplug_decision_work: [st, delay]
    unp,        \* hotplug_unpause_work: "idle" | "timer"
    off,        \* hotplug_offline_work: "idle" | "timer" | "queued"
    wq,         \* the plain work items that are queued
    samples,    \* history variable: every sample recorded so far, oldest first
    last,       \* history variable: the handler that ran last and what it chose
    fault,      \* history variable: some cpu_up/cpu_down request was refused
    reg,        \* the value of flags a handler has loaded and not yet stored
    asleep,     \* the early-suspend hook was called last, not the late-resume hook
    cpu         \* the CPU the loop of auto_hotplug_early_suspend is at, 0 outside it

vars == <<variant, phase, flags, rev, history, index, online, dw, unp, off,
          wq, samples, last, fault, reg, asleep, cpu>>

(***************************************************************************)
(* Bounds of the model.                                                    *)
(***************************************************************************)
MaxTicks == 2
\* nr_running() as the load source reports it.  A lone sample of 27 averages
\* to 300 on the tick that records it, two of them to 450, and a sample of 90
\* to 500 on the tick after it: the thresholds are met exactly.
Loads == {0, 27, 90}
\* The values written to min_cpu and max_cpu: one in range, one out of it.
CoreVals == {2, 5}
\* The ticks of a run that follows the write cursor around the buffer: twice
\* around and two ticks more.
CursorTicks == 38
\* The values written to sampling_period in such a run: both ends of its
\* range, one that wraps the buffer once more, and one out of range.
CursorWindows == {1, 19, 500, 501}

(***************************************************************************)
(* Program constants.                                                      *)
(***************************************************************************)
SAMPLING_PERIODS == 18
INDEX_MAX_VALUE == SAMPLING_PERIODS - 1
SHIFT_ALL == 500
SHIFT_CPU == 225
DOWN_SHIFT == 100
MIN_CPU == 1
MAX_CPU == 4
SAMPLE_TIME == 20
MIN_SAMPLING_RATE == 20
HZ == 1000
NR_CPUS == 4

HOTPLUG_DISABLED == "HOTPLUG_DISABLED"
HOTPLUG_PAUSED == "HOTPLUG_PAUSED"
EARLYSUSPEND_ACTIVE == "EARLYSUSPEND_ACTIVE"

CPUS == 0 .. (NR_CPUS - 1)

num_online_cpus(on) == Cardinality(on)

revDefault ==
    [shift_all |-> SHIFT_ALL, shift_cpu |-> SHIFT_CPU, down_shift |-> DOWN_SHIFT,
     min_cpu |-> MIN_CPU, max_cpu |-> MAX_CPU, sample_time |-> SAMPLE_TIME,
     sampling_period |-> SAMPLING_PERIODS]

paramDefault ==
    [enable_all_load_threshold |-> 500, second_threshold |-> 450,
     disable_load_threshold |-> 80, min_cpu_online |-> 1, max_cpu_online |-> 4,
     first_threshold |-> 300]

(***************************************************************************)
(* Deferred-work primitives, as the handlers use them.                     *)
(***************************************************************************)
Idle == [st |-> "idle", delay |-> 0]

\* No handler is between a load and a store of flags.
NoReg == [who |-> "none", val |-> {}, dis |-> FALSE]

\* schedule_delayed_work_on(0, &hotplug_decision_work, d): no effect on a
\* work item that is already pending.
schedule_decision(w, d) ==
    IF w.st = "idle" THEN [st |-> "timer", delay |-> d] ELSE w

\* schedule_delayed_work(&w, ...) of a work item kept as a bare state.
schedule_delayed(s) == IF s = "idle" THEN "timer" ELSE s

\* delayed_work_pending(&w)
delayed_work_pending(s) == s # "idle"

\* cancel_delayed_work(&w): stops the timer only; a work item whose timer
\* has already expired stays queued.
cancel_delayed_work(s) == IF s = "timer" THEN "idle" ELSE s

\* cancel_delayed_work_sync(&w)
cancel_delayed_work_sync(s) == "idle"

(***************************************************************************)
(* The circular-buffer average of hotplug_decision_work_fn.  The sums stay  *)
(* far below the width of unsigned int: at most 500 samples of at most     *)
(* 100 times the largest load are added.                                   *)
(***************************************************************************)
\* One pass of the loop body: history[j] is added, j is set to
\* INDEX_MAX_VALUE if it was 0, and the loop's j-- follows.  slots collects
\* the indexes read.
LoopBody(h, s) ==
    [j     |-> (IF s.j = 0 THEN INDEX_MAX_VALUE ELSE s.j) - 1,
     acc   |-> s.acc + h[s.j],
     slots |-> s.slots \cup {s.j}]

\* n passes of the loop from loop state s, taken in two halves to keep the
\* evaluation shallow for a window of 500: t is the loop state after the
\* first half.
RECURSIVE SumLoop(_, _, _)
SumLoop(h, s, n) ==
    IF n <= 0 THEN s
    ELSE IF n = 1 THEN LoopBody(h, s)
    ELSE CHOOSE r \in {SumLoop(h, t, n - (n \div 2)) :
                         t \in {SumLoop(h, s, n \div 2)}} : TRUE

\* for (i = 0, j = index; i < n; i++, j--)
LoopFrom(h, idx, n) == SumLoop(h, [j |-> idx, acc |-> 0, slots |-> {}], n)

avg_running(h, idx, n) == LoopFrom(h, idx, n).acc \div n

\* The slots of history[] the averaging loop reads.
LoopSlots(h, idx, n) == LoopFrom(h, idx, n).slots

\* next_index without the return to the beginning of the buffer.
next_indexNoWrap(idx) == idx + 1

\* if (unlikely(index++ == INDEX_MAX_VALUE)) index = 0;
next_index(idx) == IF idx = INDEX_MAX_VALUE THEN 0 ELSE idx + 1

\* The window the tick averages over: rev.sampling_period, or the fixed
\* SAMPLING_PERIODS of the touch variant.
Window == IF variant = "sysfs" THEN rev.sampling_period ELSE SAMPLING_PERIODS

(***************************************************************************)
(* The decision of hotplug_decision_work_fn, in the order of its branches. *)
(***************************************************************************)
\* DecideSysfs with the online-all threshold compared strictly.
DecideSysfsStrict(avg, online_cpus, fl, offPending, r) ==
    LET available_cpus == r.max_cpu
        disable_load   == r.down_shift * online_cpus
        enable_load    == r.shift_cpu * online_cpus
    IN  IF HOTPLUG_DISABLED \notin fl
        THEN IF avg > r.shift_all /\ online_cpus < available_cpus
             THEN "OnlineAll"
             ELSE IF HOTPLUG_PAUSED \in fl
             THEN "Paused"
             ELSE IF avg >= enable_load /\ online_cpus < available_cpus
             THEN "OnlineOne"
             ELSE IF avg <= disable_load
             THEN IF ~offPending THEN "OfflineOne" ELSE "None"
             ELSE "None"
        ELSE "Disabled"

\* DecideSysfs without the test of delayed_work_pending(&hotplug_offline_work).
DecideSysfsNoPendingTest(avg, online_cpus, fl, offPending, r) ==
    LET available_cpus == r.max_cpu
        disable_load   == r.down_shift * online_cpus
        enable_load    == r.shift_cpu * online_cpus
    IN  IF HOTPLUG_DISABLED \notin fl
        THEN IF avg >= r.shift_all /\ online_cpus < available_cpus
             THEN "OnlineAll"
             ELSE IF HOTPLUG_PAUSED \in fl
             THEN "Paused"
             ELSE IF avg >= enable_load /\ online_cpus < available_cpus
             THEN "OnlineOne"
             ELSE IF avg <= disable_load
             THEN "OfflineOne"
             ELSE "None"
        ELSE "Disabled"

DecideSysfs(avg, online_cpus, fl, offPending, r) ==
    LET available_cpus == r.max_cpu
        disable_load   == r.down_shift * online_cpus
        enable_load    == r.shift_cpu * online_cpus
    IN  IF HOTPLUG_DISABLED \notin fl
        THEN IF avg >= r.shift_all /\ online_cpus < available_cpus
             THEN "OnlineAll"
             ELSE IF HOTPLUG_PAUSED \in fl
             THEN "Paused"
             ELSE IF avg >= enable_load /\ online_cpus < available_cpus
             THEN "OnlineOne"
             ELSE IF avg <= disable_load
             THEN IF ~offPending THEN "OfflineOne" ELSE "None"
             ELSE "None"
        ELSE "Disabled"

\* DecideTouch without the test of HOTPLUG_DISABLED.
DecideTouchNoDisable(avg, online_cpus, fl, offPending, r) ==
    LET available_cpus == 4
        disable_load   == r.disable_load_threshold * online_cpus
    IN  IF avg >= r.enable_all_load_threshold /\ online_cpus < available_cpus
        THEN "OnlineAll"
        ELSE IF HOTPLUG_PAUSED \in fl
        THEN "Paused"
        ELSE IF avg >= r.first_threshold /\ online_cpus < 2
        THEN "OnlineOne"
        ELSE IF avg >= r.second_threshold /\ online_cpus < available_cpus
        THEN "OnlineOne"
        ELSE IF avg <= disable_load
        THEN IF ~offPending THEN "OfflineOne" ELSE "None"
        ELSE "None"

DecideTouch(avg, online_cpus, fl, offPending, r) ==
    LET available_cpus == 4
        disable_load   == r.disable_load_threshold * online_cpus
    IN  IF HOTPLUG_DISABLED \notin fl
        THEN IF avg >= r.enable_all_load_threshold /\ online_cpus < available_cpus
             THEN "OnlineAll"
             ELSE IF HOTPLUG_PAUSED \in fl
             THEN "Paused"
             ELSE IF avg >= r.first_threshold /\ online_cpus < 2
             THEN "OnlineOne"
             ELSE IF avg >= r.second_threshold /\ online_cpus < available_cpus
             THEN "OnlineOne"
             ELSE IF avg <= disable_load
             THEN IF ~offPending THEN "OfflineOne" ELSE "None"
             ELSE "None"
        ELSE "Disabled"

Decide(avg, online_cpus, fl, offPending, r) ==
    IF variant = "sysfs" THEN DecideSysfs(avg, online_cpus, fl, offPending, r)
    ELSE DecideTouch(avg, online_cpus, fl, offPending, r)

\* The action a branch stands for.
ActionOf(branch) ==
    IF branch \in {"OnlineAll", "OnlineOne", "OfflineOne"} THEN branch ELSE "NoOp"

\* The base period of the re-armed tick.
sample_time == IF variant = "sysfs" THEN rev.sample_time ELSE MIN_SAMPLING_RATE

\* sampling_rate of the fall-through re-arm.
sampling_rate(online_cpus) ==
    IF variant = "sysfs" THEN rev.sample_time * online_cpus
    ELSE MIN_SAMPLING_RATE * (online_cpus * online_cpus)

\* What a handler leaves in last: its name, the action a tick selected, the
\* average it computed and the CPUs that were online when it started.
Note(op, act, avg) == [op |-> op, action |-> act, avg |-> avg, online |-> online]

(***************************************************************************)
(* auto_hotplug_init                                                       *)
(***************************************************************************)
\* registered: whether the registrations init asks for (misc_register and
\* sysfs_create_group, or input_register_handler) succeed.  phase "failed"
\* is the return of an error, phase "started" the return of 0.  The sysfs
\* variant leaves on a failure; the touch variant assigns the result to ret
\* and never reads it.  The model keeps the result in last only: input events
\* are delivered whether or not the handler was registered, which adds no
\* state that a run with the handler registered does not reach.
AutoHotplugInit ==
    /\ phase = "boot"
    /\ \E registered \in BOOLEAN :
         /\ IF variant = "sysfs" /\ ~registered
            THEN /\ phase' = "failed"
                 /\ UNCHANGED <<flags, dw, unp>>
            ELSE /\ phase' = "started"
                 /\ flags' = flags \cup {HOTPLUG_PAUSED}
                 /\ dw' = schedule_decision(dw, HZ * 10)
                 /\ unp' = schedule_delayed(unp)
         /\ last' = Note("init", IF registered THEN "registered" ELSE "refused", 0)
    /\ UNCHANGED <<cpu, asleep, reg, variant, rev, history, index, online, off, wq, samples, fault>>

(***************************************************************************)
(* hotplug_decision_work_fn: one tick.                                     *)
(***************************************************************************)
\* rearm with the touch variant's return after scheduling the offline work
\* left out.
rearmAfterOffline(branch, online_cpus) ==
    CASE branch \in {"OnlineAll", "OnlineOne"} -> Idle
      [] branch = "Paused" -> schedule_decision(Idle, sample_time)
      [] OTHER -> schedule_decision(Idle, sampling_rate(online_cpus))

\* What the tick does with its own delayed work on the way out: the branches
\* that queue an online work return at once, the paused branch re-arms with
\* the sample time, the touch variant returns after scheduling the offline
\* work, and every other path falls through to the re-arm at the end.
rearm(branch, online_cpus) ==
    CASE branch \in {"OnlineAll", "OnlineOne"} -> Idle
      [] branch = "Paused" -> schedule_decision(Idle, sample_time)
      [] branch = "OfflineOne" /\ variant = "touch" -> Idle
      [] OTHER -> schedule_decision(Idle, sampling_rate(online_cpus))

Tick(cap, loads) ==
    /\ phase = "started"
    /\ dw.st = "timer"
    /\ Len(samples) < cap
    /\ \E nr_running \in loads :
         LET online_cpus == num_online_cpus(online)
             running     == nr_running * 100
             h           == [history EXCEPT ![index] = running]
             avg         == avg_running(h, index, Window)
             branch      == Decide(avg, online_cpus, flags,
                                   delayed_work_pending(off), rev)
         IN  /\ history' = h
             /\ index' = next_index(index)
             /\ samples' = Append(samples, running)
             /\ last' = Note("tick", ActionOf(branch), avg)
             /\ flags' = IF branch = "OnlineAll"
                         THEN flags \cup {HOTPLUG_PAUSED} ELSE flags
             /\ off' = CASE branch = "OnlineAll" -> cancel_delayed_work(off)
                         [] branch = "OnlineOne" ->
                              IF variant = "touch"
                              THEN cancel_delayed_work(off) ELSE off
                         [] branch = "OfflineOne" -> schedule_delayed(off)
                         [] OTHER -> off
             /\ wq' = CASE branch = "OnlineAll" -> wq \cup {"online_all"}
                        [] branch = "OnlineOne" -> wq \cup {"online_single"}
                        [] OTHER -> wq
             /\ dw' = rearm(branch, online_cpus)
    /\ UNCHANGED <<cpu, asleep, reg, variant, phase, rev, online, unp, fault>>

(***************************************************************************)
(* The work functions.                                                     *)
(***************************************************************************)
\* hotplug_online_all_work_fn: cpu_up of every possible CPU that is offline;
\* each request may be refused.
OnlineAllWorkFn ==
    /\ "online_all" \in wq
    /\ \E up \in SUBSET (CPUS \ online) :
         /\ online' = online \cup up
         /\ fault' = (fault \/ up # CPUS \ online)
    /\ wq' = wq \ {"online_all"}
    /\ unp' = schedule_delayed(unp)
    /\ dw' = schedule_decision(dw, sample_time)
    /\ last' = Note("online_all", "-", 0)
    /\ UNCHANGED <<cpu, asleep, reg, variant, phase, flags, rev, history, index, off, samples>>

\* The CPU hotplug_online_single_work_fn asks for: the first possible CPU
\* other than 0 that is offline.
FirstOffline(on) ==
    IF (CPUS \ on) \ {0} = {} THEN {}
    ELSE {CHOOSE c \in (CPUS \ on) \ {0} : \A d \in (CPUS \ on) \ {0} : c <= d}

OnlineSingleWorkFn ==
    /\ "online_single" \in wq
    /\ \E ok \in BOOLEAN :
         /\ online' = IF ok THEN online \cup FirstOffline(online) ELSE online
         /\ fault' = (fault \/ (~ok /\ FirstOffline(online) # {}))
    /\ wq' = wq \ {"online_single"}
    /\ dw' = schedule_decision(dw, sample_time)
    /\ last' = Note("online_single", "-", 0)
    /\ UNCHANGED <<cpu, asleep, reg, variant, phase, flags, rev, history, index, unp, off, samples>>

\* The expiry of hotplug_offline_work's timer: the work item is queued.
OfflineTimerFire ==
    /\ off = "timer"
    /\ off' = "queued"
    /\ last' = Note("offline_timer", "-", 0)
    /\ UNCHANGED <<cpu, asleep, reg, variant, phase, flags, rev, history, index, online, dw, unp,
                   wq, samples, fault>>

min_cpu == IF variant = "sysfs" THEN rev.min_cpu ELSE rev.min_cpu_online

\* OfflineTarget without the comparison against the minimum.
OfflineTargetNoFloor(on, min) ==
    IF on \ {0} # {} THEN {num_online_cpus(on) - 1} ELSE {}

\* The CPU hotplug_offline_work_fn passes to cpu_down, if it calls it.
OfflineTarget(on, min) ==
    IF on \ {0} # {} /\ num_online_cpus(on) > min
    THEN {num_online_cpus(on) - 1} ELSE {}

OfflineWorkFn ==
    /\ off = "queued"
    /\ \E ok \in BOOLEAN :
         LET target == OfflineTarget(online, min_cpu) \cap online
         IN  /\ online' = IF ok THEN online \ target ELSE online
             /\ fault' = (fault \/ (~ok /\ target # {}))
    /\ off' = "idle"
    /\ dw' = schedule_decision(dw, sample_time)
    /\ last' = Note("offline", "-", 0)
    /\ UNCHANGED <<cpu, asleep, reg, variant, phase, flags, rev, history, index, unp, wq, samples>>

\* hotplug_unpause_work_fn
UnpauseWorkFn ==
    /\ unp = "timer"
    /\ unp' = "idle"
    /\ flags' = flags \ {HOTPLUG_PAUSED}
    /\ last' = Note("unpause", "-", 0)
    /\ UNCHANGED <<cpu, asleep, reg, variant, phase, rev, history, index, online, dw, off, wq,
                   samples, fault>>

(***************************************************************************)
(* touchplug_boost_work_fn and touchplug_input_event (touch variant).      *)
(***************************************************************************)
\* A boost that brings the first offline CPU up whatever the online count.
BoostTargetAnyOffline(on) == FirstOffline(on)

\* The CPUs the boost asks for: CPU 1, and only with fewer than two online.
BoostTarget(on) == IF num_online_cpus(on) < 2 THEN {1} \ on ELSE {}

TouchplugBoostWorkFn ==
    /\ "boost" \in wq
    /\ \E ok \in BOOLEAN :
         LET want == BoostTarget(online)
         IN  /\ online' = IF ok THEN online \cup want ELSE online
             /\ fault' = (fault \/ (~ok /\ want # {}))
    /\ wq' = wq \ {"boost"}
    /\ unp' = schedule_delayed(unp)
    /\ dw' = schedule_decision(dw, MIN_SAMPLING_RATE)
    /\ last' = Note("boost", "-", 0)
    /\ UNCHANGED <<cpu, asleep, reg, variant, phase, flags, rev, history, index, off, samples>>

TouchplugInputEvent ==
    /\ variant = "touch"
    /\ phase = "started"
    /\ off' = cancel_delayed_work_sync(off)
    /\ wq' = wq \cup {"boost"}
    /\ last' = Note("input", "-", 0)
    /\ UNCHANGED <<cpu, asleep, reg, variant, phase, flags, rev, history, index, online, dw, unp,
                   samples, fault>>

(***************************************************************************)
(* hotplug_disable                                                         *)
(***************************************************************************)
HotplugDisable(flag) ==
    /\ phase = "started"
    /\ IF HOTPLUG_DISABLED \in flags /\ ~flag
       THEN /\ flags' = (flags \ {HOTPLUG_DISABLED}) \ {HOTPLUG_PAUSED}
            /\ dw' = schedule_decision(dw, 0)
            /\ UNCHANGED <<off, unp>>
       ELSE IF flag /\ HOTPLUG_DISABLED \notin flags
       THEN /\ flags' = flags \cup {HOTPLUG_DISABLED}
            /\ off' = cancel_delayed_work_sync(off)
            /\ dw' = [st |-> cancel_delayed_work_sync(dw.st), delay |-> 0]
            /\ unp' = cancel_delayed_work_sync(unp)
       ELSE UNCHANGED <<flags, dw, off, unp>>
    /\ last' = Note(IF flag THEN "disable" ELSE "enable", "-", 0)
    /\ UNCHANGED <<cpu, asleep, reg, variant, phase, rev, history, index, online, wq, samples, fault>>

(***************************************************************************)
(* auto_hotplug_early_suspend and auto_hotplug_late_resume (sysfs variant). *)
(***************************************************************************)
AutoHotplugEarlySuspend ==
    /\ variant = "sysfs"
    /\ phase = "started"
    /\ ~asleep
    /\ asleep' = TRUE
    /\ \E down \in SUBSET (online \ {0}) :
         /\ online' = online \ down
         /\ fault' = (fault \/ down # online \ {0})
    /\ flags' = flags \cup {EARLYSUSPEND_ACTIVE}
    /\ off' = cancel_delayed_work_sync(off)
    /\ dw' = [st |-> cancel_delayed_work_sync(dw.st), delay |-> 0]
    /\ last' = Note("suspend", "-", 0)
    /\ UNCHANGED <<cpu, reg, variant, phase, rev, history, index, unp, wq, samples>>

AutoHotplugLateResume ==
    /\ variant = "sysfs"
    /\ phase = "started"
    /\ asleep
    /\ asleep' = FALSE
    /\ flags' = flags \ {EARLYSUSPEND_ACTIVE}
    /\ dw' = schedule_decision(dw, HZ)
    /\ last' = Note("resume", "-", 0)
    /\ UNCHANGED <<cpu, reg, variant, phase, rev, history, index, online, unp, off, wq,
                   samples, fault>>

(***************************************************************************)
(* The sysfs stores (sysfs variant).  A store keeps the value it parsed    *)
(* only if it differs from the field and lies in the field's range.  val   *)
(* is an unsigned int: what sscanf parsed, or whatever the variable held   *)
(* if the text was no number.  A store leaves the value it was given in    *)
(* last.val.                                                               *)
(***************************************************************************)
\* A store that forgets the upper end of the range.
storeNoUpper(field, lo, hi, val) ==
    /\ variant = "sysfs"
    /\ phase = "started"
    /\ rev' = IF val # rev[field] /\ val >= lo
              THEN [rev EXCEPT ![field] = val] ELSE rev
    /\ last' = [val |-> val] @@ Note(field, "-", 0)
    /\ UNCHANGED <<cpu, asleep, reg, variant, phase, flags, history, index, online, dw, unp, off,
                   wq, samples, fault>>

store(field, lo, hi, val) ==
    /\ variant = "sysfs"
    /\ phase = "started"
    /\ rev' = IF val # rev[field] /\ val >= lo /\ val <= hi
              THEN [rev EXCEPT ![field] = val] ELSE rev
    /\ last' = [val |-> val] @@ Note(field, "-", 0)
    /\ UNCHANGED <<cpu, asleep, reg, variant, phase, flags, history, index, online, dw, unp, off,
                   wq, samples, fault>>

shift_cpu_store(val) == store("shift_cpu", 0, 500, val)

shift_all_store(val) == store("shift_all", 0, 600, val)

down_shift_store(val) == store("down_shift", 0, 200, val)

sample_time_store(val) == store("sample_time", 1, 500, val)

sampling_period_store(val) == store("sampling_period", 1, 500, val)

min_cpu_store(val) == store("min_cpu", 1, 4, val)

max_cpu_store(val) == store("max_cpu", 1, 4, val)

Init ==
    /\ variant \in {"sysfs", "touch"}
    /\ phase = "boot"
    /\ flags = {}
    /\ rev = IF variant = "sysfs" THEN revDefault ELSE paramDefault
    /\ history = [i \in 0 .. INDEX_MAX_VALUE |-> 0]
    /\ index = 0
    /\ online \in {0 .. k : k \in 0 .. (NR_CPUS - 1)}
    /\ dw = Idle
    /\ unp = "idle"
    /\ off = "idle"
    /\ wq = {}
    /\ samples = <<>>
    /\ last = [op |-> "none", action |-> "-", avg |-> 0, online |-> online]
    /\ fault = FALSE
    /\ reg = NoReg
    /\ asleep = FALSE
    /\ cpu = 0

Next ==
    \/ AutoHotplugInit
    \/ Tick(MaxTicks, Loads)
    \/ OnlineAllWorkFn
    \/ OnlineSingleWorkFn
    \/ OfflineTimerFire
    \/ OfflineWorkFn
    \/ UnpauseWorkFn
    \/ TouchplugBoostWorkFn
    \/ TouchplugInputEvent
    \/ \E flag \in BOOLEAN : HotplugDisable(flag)
    \/ AutoHotplugEarlySuspend
    \/ AutoHotplugLateResume
    \/ \E val \in CoreVals : min_cpu_store(val)
    \/ \E val \in CoreVals : max_cpu_store(val)

Spec == Init /\ [][Next]_vars

(***************************************************************************)
(* The updates of flags without their atomicity.  flags |= x and           *)
(* flags &= ~x are a load, an operation on the loaded value and a store;   *)
(* nothing orders them against the other handlers, which run in other      *)
(* threads (kworkers, the early-suspend thread, the caller of              *)
(* hotplug_disable).  Two updates are taken apart here, the one of         *)
(* hotplug_unpause_work_fn and the one of auto_hotplug_late_resume; every   *)
(* other handler runs whole between the load and the store.                *)
(***************************************************************************)
\* hotplug_unpause_work_fn up to its load of flags.
UnpauseLoad ==
    /\ unp = "timer"
    /\ reg.who = "none"
    /\ unp' = "idle"
    /\ reg' = [who |-> "unpause", val |-> flags, dis |-> FALSE]
    /\ UNCHANGED <<cpu, asleep, variant, phase, flags, rev, history, index, online, dw, off,
                   wq, samples, last, fault>>

\* hotplug_unpause_work_fn from its store of flags on.  A hotplug_disable(1)
\* that waits for this work item in cancel_delayed_work_sync returns now,
\* with hotplug_unpause_work cancelled.
UnpauseStore ==
    /\ reg.who = "unpause"
    /\ flags' = reg.val \ {HOTPLUG_PAUSED}
    /\ unp' = IF reg.dis THEN cancel_delayed_work_sync(unp) ELSE unp
    /\ reg' = NoReg
    /\ last' = Note("unpause", "-", 0)
    /\ UNCHANGED <<cpu, asleep, variant, phase, rev, history, index, online, dw, off, wq,
                   samples, fault>>

\* hotplug_disable(1) called while hotplug_unpause_work_fn is between its
\* load and its store: it sets HOTPLUG_DISABLED, cancels the offline work and
\* the tick and then waits for the running work item.
DisableDuringUnpause ==
    /\ phase = "started"
    /\ reg.who = "unpause"
    /\ ~reg.dis
    /\ HOTPLUG_DISABLED \notin flags
    /\ flags' = flags \cup {HOTPLUG_DISABLED}
    /\ off' = cancel_delayed_work_sync(off)
    /\ dw' = [st |-> cancel_delayed_work_sync(dw.st), delay |-> 0]
    /\ reg' = [reg EXCEPT !.dis = TRUE]
    /\ UNCHANGED <<cpu, asleep, variant, phase, rev, history, index, online, unp, wq,
                   samples, last, fault>>

\* auto_hotplug_late_resume up to its load of flags.
ResumeLoad ==
    /\ variant = "sysfs"
    /\ phase = "started"
    /\ asleep
    /\ reg.who = "none"
    /\ reg' = [who |-> "resume", val |-> flags, dis |-> FALSE]
    /\ UNCHANGED <<cpu, asleep, variant, phase, flags, rev, history, index, online, dw, unp,
                   off, wq, samples, last, fault>>

\* auto_hotplug_late_resume from its store of flags on.
ResumeStore ==
    /\ reg.who = "resume"
    /\ asleep' = FALSE
    /\ flags' = reg.val \ {EARLYSUSPEND_ACTIVE}
    /\ dw' = schedule_decision(dw, HZ)
    /\ reg' = NoReg
    /\ last' = Note("resume", "-", 0)
    /\ UNCHANGED <<cpu, variant, phase, rev, history, index, online, unp, off, wq,
                   samples, fault>>

\* The handlers of both variants, with the two updates also taken apart.
\* hotplug_disable(1) cannot return while hotplug_unpause_work_fn runs, and
\* the power-management core calls the resume hook once per suspension.
NextRace ==
    \/ AutoHotplugInit
    \/ Tick(MaxTicks, Loads)
    \/ OnlineAllWorkFn
    \/ OnlineSingleWorkFn
    \/ OfflineTimerFire
    \/ OfflineWorkFn
    \/ UnpauseWorkFn
    \/ TouchplugBoostWorkFn
    \/ TouchplugInputEvent
    \/ reg.who # "unpause" /\ HotplugDisable(TRUE)
    \/ HotplugDisable(FALSE)
    \/ AutoHotplugEarlySuspend
    \/ reg.who # "resume" /\ AutoHotplugLateResume
    \/ UnpauseLoad
    \/ UnpauseStore
    \/ DisableDuringUnpause
    \/ ResumeLoad
    \/ ResumeStore

SpecRace == Init /\ [][NextRace]_vars

(***************************************************************************)
(* auto_hotplug_early_suspend taken one cpu_down at a time.  The hook runs  *)
(* in the suspend path, the work functions in worker threads, and nothing  *)
(* holds the works back while the loop runs: the works are cancelled only  *)
(* after it.  cpu_down of a CPU that is already offline changes nothing.   *)
(***************************************************************************)
\* The hook is entered: for_each_possible_cpu starts, and passes CPU 0.
SuspendEntry ==
    /\ variant = "sysfs"
    /\ phase = "started"
    /\ ~asleep
    /\ cpu = 0
    /\ asleep' = TRUE
    /\ cpu' = 1
    /\ last' = Note("suspend_entry", "-", 0)
    /\ UNCHANGED <<reg, variant, phase, flags, rev, history, index, online, dw, unp, off,
                   wq, samples, fault>>

\* One pass of the loop: cpu_down(cpu).
SuspendCpuDown ==
    /\ cpu \in 1 .. (NR_CPUS - 1)
    /\ \E ok \in BOOLEAN :
         /\ online' = IF ok THEN online \ {cpu} ELSE online
         /\ fault' = (fault \/ (~ok /\ cpu \in online))
    /\ cpu' = cpu + 1
    /\ last' = Note("suspend_cpu_down", "-", 0)
    /\ UNCHANGED <<asleep, reg, variant, phase, flags, rev, history, index, dw, unp, off,
                   wq, samples>>

\* After the loop: the flag is set and the two delayed works are cancelled.
SuspendExit ==
    /\ cpu = NR_CPUS
    /\ cpu' = 0
    /\ flags' = flags \cup {EARLYSUSPEND_ACTIVE}
    /\ off' = cancel_delayed_work_sync(off)
    /\ dw' = [st |-> cancel_delayed_work_sync(dw.st), delay |-> 0]
    /\ last' = Note("suspend", "-", 0)
    /\ UNCHANGED <<asleep, reg, variant, phase, rev, history, index, online, unp, wq,
                   samples, fault>>

NextLoop ==
    \/ AutoHotplugInit
    \/ Tick(MaxTicks, Loads)
    \/ OnlineAllWorkFn
    \/ OnlineSingleWorkFn
    \/ OfflineTimerFire
    \/ OfflineWorkFn
    \/ UnpauseWorkFn
    \/ HotplugDisable(TRUE)
    \/ HotplugDisable(FALSE)
    \/ SuspendEntry
    \/ SuspendCpuDown
    \/ SuspendExit
    \/ cpu = 0 /\ AutoHotplugLateResume

SpecLoop == Init /\ [][NextLoop]_vars

(***************************************************************************)
(* The configuration surface alone: init and the seven stores.             *)
(***************************************************************************)
\* The values a store is given: the two ends of its range and the values
\* next to them outside it (val is unsigned: there is none below 0).
StoreVals(lo, hi) == {v \in {lo - 1, lo, hi, hi + 1} : v >= 0}

NextConfig ==
    \/ AutoHotplugInit
    \/ \E val \in StoreVals(0, 500) : shift_cpu_store(val)
    \/ \E val \in StoreVals(0, 600) : shift_all_store(val)
    \/ \E val \in StoreVals(0, 200) : down_shift_store(val)
    \/ \E val \in StoreVals(1, 4) : min_cpu_store(val)
    \/ \E val \in StoreVals(1, 4) : max_cpu_store(val)
    \/ \E val \in StoreVals(1, 500) : sample_time_store(val)
    \/ \E val \in StoreVals(1, 500) : sampling_period_store(val)

SpecConfig == Init /\ [][NextConfig]_vars

(***************************************************************************)
(* A long run of ticks, to follow the write cursor around the buffer.  The  *)
(* load of a tick is fixed by its number, so that successive samples       *)
(* differ and a slot that is overwritten changes; sampling_period is       *)
(* written at any time between ticks.  The loads stay below the OnlineAll   *)
(* threshold.                                                              *)
(***************************************************************************)
CursorLoad == {Len(samples) % 5}

NextCursor ==
    \/ AutoHotplugInit
    \/ Tick(CursorTicks, CursorLoad)
    \/ UnpauseWorkFn
    \/ OnlineSingleWorkFn
    \/ OfflineTimerFire
    \/ OfflineWorkFn
    \/ \E val \in CursorWindows : sampling_period_store(val)

SpecCursor == Init /\ [][NextCursor]_vars

(***************************************************************************)
(* The claims.                                                             *)
(***************************************************************************)
RECURSIVE SumSeq(_)
SumSeq(q) == IF q = <<>> THEN 0 ELSE Head(q) + SumSeq(Tail(q))

\* The last n recorded samples, fewer if fewer were recorded.
LastN(q, n) == IF Len(q) <= n THEN q ELSE SubSeq(q, Len(q) - n + 1, Len(q))

\* The truncated mean of the last n recorded samples, zero before the first.
MeanOfLastN(q, n) == SumSeq(LastN(q, n)) \div n

\* C1: the average a tick computes is the truncated arithmetic mean of the
\* last N recorded samples, samples before the first counting as 0.
C1_AverageIsMeanOfLastN ==
    last.op = "tick" => last.avg = MeanOfLastN(samples, Window)

\* The thresholds of the claim's rule list, read from the tunables.
online_all_high == IF variant = "sysfs" THEN rev.shift_all
                   ELSE rev.enable_all_load_threshold

max_online == IF variant = "sysfs" THEN rev.max_cpu ELSE 4

online_one_threshold(n) ==
    IF variant = "sysfs" THEN rev.shift_cpu * n
    ELSE IF n < 2 /\ rev.first_threshold < rev.second_threshold
         THEN rev.first_threshold ELSE rev.second_threshold

offline_low == IF variant = "sysfs" THEN rev.down_shift
               ELSE rev.disable_load_threshold

\* The rule list of the claim: the first rule that matches decides.
FirstMatchingRule(avg, n, disabled, paused, pendingOffline) ==
    CASE disabled -> "NoOp"
      [] ~disabled /\ avg >= online_all_high /\ n < max_online -> "OnlineAll"
      [] ~disabled /\ ~(avg >= online_all_high /\ n < max_online) /\ paused -> "NoOp"
      [] OTHER ->
           IF avg >= online_one_threshold(n) /\ n < max_online THEN "OnlineOne"
           ELSE IF avg <= offline_low * n /\ ~pendingOffline THEN "OfflineOne"
           ELSE "NoOp"

\* C2: a tick selects the action of the first matching rule (disabled, online
\* all, paused, online one, offline one, no-op) with inclusive comparisons,
\* and queues the work of that action: the online-all work, the online-single
\* work, or the offline work behind its cooldown timer.
C2_TickFollowsRuleOrder ==
    [][last'.op = "tick" =>
         /\ last'.action = FirstMatchingRule(last'.avg, num_online_cpus(online),
                                             HOTPLUG_DISABLED \in flags,
                                             HOTPLUG_PAUSED \in flags,
                                             delayed_work_pending(off))
         /\ ("online_all" \in wq' \ wq) => last'.action = "OnlineAll"
         /\ last'.action = "OnlineAll" => "online_all" \in wq'
         /\ ("online_single" \in wq' \ wq) => last'.action = "OnlineOne"
         /\ last'.action = "OnlineOne" => "online_single" \in wq'
         /\ last'.action = "OfflineOne" <=> (off = "idle" /\ off' = "timer")
      ]_vars

\* A tick met a threshold exactly and selected the action it gates.
C2_Witness ==
    /\ last.op = "tick"
    /\ \/ last.action = "OnlineAll" /\ last.avg = online_all_high
       \/ last.action = "OnlineOne"
            /\ last.avg = online_one_threshold(num_online_cpus(online))
       \/ last.action = "OfflineOne"
            /\ last.avg = offline_low * num_online_cpus(online)

\* C3: a tick that runs with HOTPLUG_DISABLED set selects no action whatever
\* the average: it queues no online-all or online-single work, arms no
\* offline work and leaves the flags (HOTPLUG_PAUSED among them) as they are.
C3_DisabledTickSelectsNothing ==
    [][(last'.op = "tick" /\ HOTPLUG_DISABLED \in flags) =>
         /\ last'.action = "NoOp"
         /\ wq' = wq
         /\ off' = off
         /\ flags' = flags
      ]_vars

\* A tick ran with the flag set, fewer CPUs online than allowed and an
\* average at or above the online-all threshold.
C3_Witness ==
    /\ last.op = "tick"
    /\ HOTPLUG_DISABLED \in flags
    /\ last.avg >= online_all_high
    /\ num_online_cpus(online) < max_online
    /\ HOTPLUG_PAUSED \notin flags

\* C4: from the return of hotplug_disable(true) to the next
\* hotplug_disable(false), that is while HOTPLUG_DISABLED is set, no tick,
\* offline work or unpause timer is pending and no tick executes.
C4_DisabledHaltsSampling ==
    HOTPLUG_DISABLED \in flags =>
        /\ dw.st = "idle"
        /\ off = "idle"
        /\ unp = "idle"
        /\ last.op # "tick"

\* C5: while HOTPLUG_DISABLED is set no handler other than the suspend hook
\* changes which CPUs are online.
C5_DisabledFreezesTopology ==
    [][(HOTPLUG_DISABLED \in flags /\ last'.op # "suspend") => online' = online]_vars

\* C6: hotplug_disable(false) with the flag set clears it and leaves the tick
\* pending with zero delay; hotplug_disable with the value the controller
\* already has changes no flag and no work item.
C6_EnableTicksAtOnce ==
    [][/\ (last'.op = "enable" /\ HOTPLUG_DISABLED \in flags) =>
             /\ HOTPLUG_DISABLED \notin flags'
             /\ dw' = [st |-> "timer", delay |-> 0]
       /\ (\/ last'.op = "enable" /\ HOTPLUG_DISABLED \notin flags
           \/ last'.op = "disable" /\ HOTPLUG_DISABLED \in flags) =>
             /\ flags' = flags
             /\ <<dw, unp, off, wq>>' = <<dw, unp, off, wq>>
      ]_vars

\* C7: when a tick has selected OnlineOne or OnlineAll no offline work is
\* pending any more.
C7_OnlineCancelsOffline ==
    (last.op = "tick" /\ last.action \in {"OnlineOne", "OnlineAll"}) => off = "idle"

\* The ceiling of the online actions as the tunables give it in a state.
CeilingOf(r) == IF variant = "sysfs" THEN r.max_cpu ELSE 4

\* C8: with max_cores left as it is, no tick, online-all or online-single
\* work takes the number of online CPUs from at most max_cores to above it.
C8_MaxCoresIsCeiling ==
    [][(/\ CeilingOf(rev') = CeilingOf(rev)
        /\ num_online_cpus(online) <= CeilingOf(rev)) =>
          num_online_cpus(online') <= CeilingOf(rev)
      ]_vars

\* C9: CPU 0 is online in every reachable state, and the offline work takes
\* at most one CPU offline, none when no more than min_cores are online, and
\* never CPU 0.
C9_OfflineKeepsFloorAndCpu0 ==
    /\ [](0 \in online)
    /\ [][last'.op = "offline" =>
            /\ online' \subseteq online
            /\ num_online_cpus(online) - num_online_cpus(online') <= 1
            /\ num_online_cpus(online) <= min_cpu => online' = online
            /\ 0 \in online'
         ]_vars

\* The offline work ran with exactly min_cores CPUs online, one of them a
\* CPU other than 0, and took none offline.
C9_Witness ==
    /\ last.op = "offline"
    /\ num_online_cpus(last.online) = min_cpu
    /\ last.online \ {0} # {}
    /\ online = last.online

Lowest(S) == CHOOSE c \in S : \A d \in S : c <= d
Highest(S) == CHOOSE c \in S : \A d \in S : c >= d

\* C10: the online-single work brings online the lowest-indexed offline CPU
\* (none if none is offline) and the offline work, with more than min_cores
\* online, takes offline the highest-indexed online CPU; a request the
\* platform refuses leaves the online set as it was.
C10_LowestUpHighestDown ==
    [][/\ last'.op = "online_single" =>
            \/ online' = online
            \/ CPUS \ online # {} /\ online' = online \cup {Lowest(CPUS \ online)}
       /\ (last'.op = "offline" /\ num_online_cpus(online) > min_cpu) =>
            \/ online' = online /\ fault'
            \/ online' = online \ {Highest(online)}
      ]_vars

\* C11: when the suspend hook has run, EARLYSUSPEND_ACTIVE is set, no CPU
\* within the floor of min_cores was taken offline and, unless the platform
\* refused a request, no more than min_cores CPUs are left online.
C11_SuspendForcesDownToMinCores ==
    [][last'.op = "suspend" =>
         /\ EARLYSUSPEND_ACTIVE \in flags'
         /\ online' \subseteq online
         /\ num_online_cpus(online') >=
              (IF num_online_cpus(online) < min_cpu
               THEN num_online_cpus(online) ELSE min_cpu)
         /\ ~fault' => num_online_cpus(online') <= min_cpu
      ]_vars

\* C12: from the end of the suspend hook to the resume hook, that is while
\* EARLYSUSPEND_ACTIVE is set, no tick, offline work or unpause timer is
\* pending, no tick executes and no CPU is brought online.
C12_SuspendHaltsEverything ==
    /\ [](EARLYSUSPEND_ACTIVE \in flags =>
            /\ dw.st = "idle"
            /\ off = "idle"
            /\ unp = "idle"
            /\ last.op # "tick")
    /\ [][(EARLYSUSPEND_ACTIVE \in flags) => online' \subseteq online]_vars

\* C13: the resume hook clears EARLYSUSPEND_ACTIVE and leaves the tick
\* pending, due after the resume delay of one second; it arms no other work
\* item and changes no CPU.
C13_ResumeArmsOneTick ==
    [][last'.op = "resume" =>
         /\ EARLYSUSPEND_ACTIVE \notin flags'
         /\ dw' = [st |-> "timer", delay |-> HZ]
         /\ <<unp, off, wq, online>>' = <<unp, off, wq, online>>
      ]_vars

FieldRange ==
    [shift_all |-> 0 .. 600, shift_cpu |-> 0 .. 500, down_shift |-> 0 .. 200,
     min_cpu |-> 1 .. 4, max_cpu |-> 1 .. 4, sample_time |-> 1 .. 500,
     sampling_period |-> 1 .. 500]

C17_FailedRegistrationInstallsNothing ==
    last.op = "init" =>
        IF last.action = "refused"
        THEN /\ phase = "failed"
             /\ dw.st = "idle"
             /\ unp = "idle"
             /\ HOTPLUG_PAUSED \notin flags
        ELSE /\ phase = "started"
             /\ dw = [st |-> "timer", delay |-> HZ * 10]
             /\ unp = "timer"
             /\ HOTPLUG_PAUSED \in flags

\* C19: when the OnlineAll work has run, HOTPLUG_PAUSED is set and an unpause
\* timer is pending, so that the pause lasts from that action until the
\* timer expires, whatever unpause timer was pending before.
C19_PauseHoldsAfterOnlineAll ==
    [][last'.op = "online_all" =>
         /\ HOTPLUG_PAUSED \in flags'
         /\ unp' = "timer"
      ]_vars

\* C15: the handlers exclude each other on flags, so that no update of a
\* flag is lost: when the unpause work or the resume hook has run, flags is
\* what it was just before the handler's write but for the one bit the
\* handler clears.
C15_NoFlagUpdateIsLost ==
    [][/\ last'.op = "unpause" => flags' = flags \ {HOTPLUG_PAUSED}
       /\ last'.op = "resume" => flags' = flags \ {EARLYSUSPEND_ACTIVE}
      ]_vars

\* C18: once started, HOTPLUG_PAUSED is never set, with HOTPLUG_DISABLED
\* clear, unless something is on its way to clear it: the unpause timer is
\* pending, the unpause work is running, or the OnlineAll work that arms the
\* timer is queued.
C18_PausedHasUnpauseComing ==
    (phase = "started" /\ HOTPLUG_PAUSED \in flags /\ HOTPLUG_DISABLED \notin flags)
        => \/ delayed_work_pending(unp)
           \/ reg.who = "unpause"
           \/ "online_all" \in wq

\* C20: once started, with HOTPLUG_DISABLED and EARLYSUSPEND_ACTIVE clear and
\* the system not suspended, a tick is always on its way: the tick is
\* pending, or the offline work, or a queued work item, each of which
\* re-arms the tick when it runs.
C20_TickIsAlwaysComing ==
    (/\ phase = "started"
     /\ HOTPLUG_DISABLED \notin flags
     /\ EARLYSUSPEND_ACTIVE \notin flags
     /\ ~asleep)
        => \/ dw.st = "timer"
           \/ delayed_work_pending(off)
           \/ wq # {}

\* C21: a tick selects OfflineOne only when no offline work is pending, and
\* then arms it; a tick that runs while one is pending leaves it as it is or
\* cancels it, and never puts work whose timer has expired back on its
\* timer; and the offline work, when it runs, takes at most one CPU offline
\* and brings none online.
C21_OneOfflinePending ==
    [][/\ (last'.op = "tick" /\ last'.action = "OfflineOne") =>
            /\ ~delayed_work_pending(off)
            /\ off' = "timer"
       /\ (last'.op = "tick" /\ delayed_work_pending(off)) =>
            /\ off' \in {off, "idle"}
            /\ last'.action # "OfflineOne"
       /\ last'.op = "offline" =>
            /\ online' \subseteq online
            /\ Cardinality(online \ online') <= 1
            /\ off' = "idle"
      ]_vars

\* A tick ran with the average at or below the offline threshold while the
\* offline work was pending, and left it pending.
C21_Witness ==
    /\ last.op = "tick"
    /\ last.action = "NoOp"
    /\ HOTPLUG_DISABLED \notin flags
    /\ HOTPLUG_PAUSED \notin flags
    /\ last.avg = 0
    /\ Len(samples) = 2
    /\ delayed_work_pending(off)

\* C24: in the touch variant the tick that schedules the offline work leaves
\* the tick idle, and while the offline work is pending and the tick idle
\* only the boost work, hotplug_disable or the offline work itself arms the
\* tick, so that no tick runs and cancels the offline work in between.
C24_OfflineTickDoesNotRearm ==
    [][variant = "touch" =>
         /\ (last'.op = "tick" /\ last'.action = "OfflineOne") => dw'.st = "idle"
         /\ (delayed_work_pending(off) /\ dw.st = "idle" /\ dw'.st = "timer") =>
               last'.op \in {"boost", "enable", "disable", "offline"}
      ]_vars

\* C24, amended: as above, with the online works a tick queued earlier named
\* among the steps that arm the tick while the offline work is pending.
C24_RearmOnlyByWorks ==
    [][variant = "touch" =>
         /\ (last'.op = "tick" /\ last'.action = "OfflineOne") => dw'.st = "idle"
         /\ (delayed_work_pending(off) /\ dw.st = "idle" /\ dw'.st = "timer") =>
               last'.op \in {"boost", "enable", "offline", "online_single", "online_all"}
      ]_vars

\* The touch variant's tick has scheduled the offline work and left the
\* tick idle, with no other work queued.
C24_Witness ==
    /\ variant = "touch"
    /\ last.op = "tick"
    /\ last.action = "OfflineOne"
    /\ off = "timer"
    /\ dw.st = "idle"
    /\ wq = {}

\* C22: on every tick the write cursor is within 0..17 before and after,
\* the tick writes its sample to the slot the cursor pointed to and to no
\* other, the cursor advances by one modulo 18, and every slot the averaging
\* loop reads is within 0..17, whatever the configured window.
C22_CursorStaysInBuffer ==
    [][last'.op = "tick" =>
         /\ index \in 0..INDEX_MAX_VALUE
         /\ index' \in 0..INDEX_MAX_VALUE
         /\ index' = (index + 1) % SAMPLING_PERIODS
         /\ history' = [history EXCEPT ![index] = samples'[Len(samples')]]
         /\ DOMAIN history' = 0..INDEX_MAX_VALUE
         /\ LoopSlots(history', index, Window) \subseteq 0..INDEX_MAX_VALUE
      ]_vars

\* A tick has wrapped the cursor from 17 to 0 for the second time, averaging
\* over a window of 500.
C22_Witness ==
    /\ variant = "sysfs"
    /\ last.op = "tick"
    /\ Len(samples) = 2 * SAMPLING_PERIODS
    /\ index = 0
    /\ rev.sampling_period = 500

\* C23: as long as no cpu_up or cpu_down of the controller has been refused,
\* the online CPUs are 0..k-1 for some k whenever the suspend hook is not in
\* the middle of its loop, and whenever the offline work is queued to run,
\* the CPU it would ask cpu_down for is online.
Contiguous(on) == on = 0..(num_online_cpus(on) - 1)

C23_OnlineSetIsPrefix ==
    ~fault => /\ cpu = 0 => Contiguous(online)
              /\ off = "queued" => OfflineTarget(online, min_cpu) \subseteq online
====
